---- MODULE Spec2Model ----
(***************************************************************************)
(* A model of BrowserCompatibilityValidator                                *)
(* (src/browser_compatibility_validator.py): the three analyzers, the      *)
(* report generation and run_full_analysis.                                *)
(*                                                                         *)
(* Text.  A Python string is modelled as a sequence of lexemes.  A text is *)
(* segmented so that every literal the validator looks for is a lexeme of  *)
(* its own ("ontouchstart" is written <<"on", "touchstart">>,              *)
(* "-webkit-transform:" is <<"-webkit-", "transform:">>), which makes      *)
(* Python's substring test a test for a contiguous run of lexemes and lets *)
(* the regular expressions be run lexeme by lexeme.  File paths and the    *)
(* finding messages are texts as well, because analyze_html searches the   *)
(* messages for the file path.                                             *)
(***************************************************************************)
EXTENDS Integers, Sequences, FiniteSets, TLC

VARIABLES
    fs,        \* the artifacts on disk: path -> [exists, content]
    bs4,       \* BS4_AVAILABLE, fixed at import
    results,   \* self.results
    report,    \* the dict last returned by generate_compatibility_report
    saved,     \* the documents written by save_report, oldest first
    hist,      \* the analyzer calls made on this validator, oldest first
    pre        \* self.results as it was before the latest analyzer call

vars == <<fs, bs4, results, report, saved, hist, pre>>

-----------------------------------------------------------------------------
(* Bounds of the model.                                                    *)

MaxCalls == 3
MaxRuns == 3
MaxFaults == 1
MaxTextCalls == 2
MaxCssLen == 4
MaxJsFrags == 2

-----------------------------------------------------------------------------
(* Strings.                                                                *)

\* the list [msg] if b holds, the empty list otherwise
Cond(b, msg) == IF b THEN <<msg>> ELSE <<>>

\* str.lower() on one lexeme
LowerLex(l) ==
    CASE l = "<META" -> "<meta"
      [] l = "<HTML" -> "<html"
      [] l = "LANG=" -> "lang="
      [] l = "EN" -> "en"
      [] l = "ARIA-LABEL" -> "aria-label"
      [] l = "<!DOCTYPE html>" -> "<!doctype html>"
      [] l = "<IMG" -> "<img"
      [] l = "Polyfill" -> "polyfill"
      [] l = "POLYFILL" -> "polyfill"
      [] OTHER -> l

\* str.lower()
Lower(text) == [i \in 1..Len(text) |-> LowerLex(text[i])]

\* needle in text
Contains(text, needle) ==
    \E i \in 0..(Len(text) - Len(needle)) :
        \A j \in 1..Len(needle) : text[i + j] = needle[j]

\* the byte length of text[1..n] (the artifacts are ASCII)
RECURSIVE ByteLenTo(_, _)
ByteLenTo(text, n) ==
    IF n = 0 THEN 0 ELSE Len(text[n]) + ByteLenTo(text, n - 1)

\* os.path.getsize of a file holding text
ByteLen(text) == ByteLenTo(text, Len(text))

WS == {" ", "\n"}

\* the first position from i on that holds no whitespace
RECURSIVE FirstInk(_, _)
FirstInk(text, i) ==
    IF i > Len(text) \/ text[i] \notin WS THEN i ELSE FirstInk(text, i + 1)

\* the last position up to i that holds no whitespace
RECURSIVE LastInk(_, _)
LastInk(text, i) ==
    IF i < 1 \/ text[i] \notin WS THEN i ELSE LastInk(text, i - 1)

\* str.strip()
Strip(text) == SubSeq(text, FirstInk(text, 1), LastInk(text, Len(text)))

\* str.startswith
StartsWith(text, prefix) ==
    /\ Len(text) >= Len(prefix)
    /\ SubSeq(text, 1, Len(prefix)) = prefix

-----------------------------------------------------------------------------
(* Regular expressions (module re).  A pattern is a sequence of            *)
(* alternatives (the parts pattern.split('|') gives); an alternative is a  *)
(* sequence of elements; an element accepts one lexeme of a class, or with *)
(* star any number of them.                                                *)

Lit(l) == [set |-> {l}, neg |-> FALSE, star |-> FALSE]
OneOf(S) == [set |-> S, neg |-> FALSE, star |-> FALSE]
NoneOf(S) == [set |-> S, neg |-> TRUE, star |-> FALSE]
Star(e) == [e EXCEPT !.star = TRUE]

Accepts(e, l) == (l \in e.set) # e.neg

\* the position after the match of alt[k..] at text[i..] that the
\* backtracking matcher finds first (a star is greedy), or -1
RECURSIVE MatchEnd(_, _, _, _)
MatchEnd(text, i, alt, k) ==
    IF k > Len(alt) THEN i
    ELSE LET e == alt[k]
             ok == i <= Len(text) /\ Accepts(e, text[i])
         IN  IF e.star
             THEN LET g == IF ok THEN MatchEnd(text, i + 1, alt, k) ELSE -1
                  IN  IF g # -1 THEN g ELSE MatchEnd(text, i, alt, k + 1)
             ELSE IF ok THEN MatchEnd(text, i + 1, alt, k + 1) ELSE -1

\* re.search(pattern, text) is not None
Search(pattern, text) ==
    \E a \in 1..Len(pattern) : \E i \in 1..(Len(text) + 1) :
        MatchEnd(text, i, pattern[a], 1) # -1

\* re.search(pattern, text, re.IGNORECASE) is not None, pattern in lower case
SearchI(pattern, text) == Search(pattern, Lower(text))

\* len(re.findall(pattern, text)) for a pattern of one alternative that
\* matches no empty string: leftmost matches, not overlapping
RECURSIVE FindAllFrom(_, _, _)
FindAllFrom(alt, text, i) ==
    IF i > Len(text) THEN 0
    ELSE LET e == MatchEnd(text, i, alt, 1)
         IN  IF e = -1 THEN FindAllFrom(alt, text, i + 1)
             ELSE 1 + FindAllFrom(alt, text, e)

FindAllCount(alt, text) == FindAllFrom(alt, text, 1)

Quote == {"'", "\""}

-----------------------------------------------------------------------------
(* The artifacts.                                                          *)

HtmlPaths == {"index.html", "enhanced_index.html"}
CssPaths == {"styles.css", "enhanced_styles.css"}
JsPaths == {"script.js", "enhanced_script.js"}
Paths == HtmlPaths \cup CssPaths \cup JsPaths

\* a file path as text
PathText(p) ==
    CASE p = "index.html" -> <<"index.html">>
      [] p = "enhanced_index.html" -> <<"enhanced_", "index.html">>
      [] p = "styles.css" -> <<"styles.css">>
      [] p = "enhanced_styles.css" -> <<"enhanced_", "styles.css">>
      [] p = "script.js" -> <<"script.js">>
      [] p = "enhanced_script.js" -> <<"enhanced_", "script.js">>

\* a markup document with no doctype, no viewport tag, no language attribute
IndexHtml == <<"<html", ">", "<body>", "x", "</html>">>

\* a markup document with all three, a video without playsinline, an image
\* without srcset or loading and a link without a role
EnhancedIndexHtml ==
    <<"\n", "<!DOCTYPE html>", "<html", " ", "lang=", "\"", "en", "\"", ">",
      "<META", " ", "name=", "'", "viewport", "'", ">",
      "<video", ">", "<img", " ", "alt", ">", "<a", ">", "ARIA-LABEL">>

\* a stylesheet with one media query and the unit usage 10px 10px 1em 50%
StylesCss ==
    <<"@media", " ", "screen", "{", "}",
      "1", "0", "px", " ", "1", "0", "px", " ", "1", "em", " ", "5", "0", "%">>

\* a stylesheet with no media query, flexbox and a transition without
\* prefixes, and more pixel lengths than relative ones
EnhancedStylesCss ==
    <<"display: flex", " ", "transition:", "1", "px", " ", "5", "px",
      " ", "1", "rem">>

\* a script containing only a timer call
ScriptJs == <<"setInterval", "(", "x", ")">>

\* a script that guards and uses navigator.mediaDevices.getUserMedia inside
\* try/catch, with an animation frame and a polyfill
EnhancedScriptJs ==
    <<"try", "if", " ", "(", "navigator", ".mediaDevices",
      ".getUserMedia", ")", "navigator", ".mediaDevices",
      ".getUserMedia", "(", ")", "catch",
      "requestAnimationFrame", "Polyfill">>

CatalogText(p) ==
    CASE p = "index.html" -> IndexHtml
      [] p = "enhanced_index.html" -> EnhancedIndexHtml
      [] p = "styles.css" -> StylesCss
      [] p = "enhanced_styles.css" -> EnhancedStylesCss
      [] p = "script.js" -> ScriptJs
      [] p = "enhanced_script.js" -> EnhancedScriptJs

\* a file: absent, holding a text, or holding bytes that are not UTF-8 (f.read()
\* then raises UnicodeDecodeError)
Absent == [exists |-> FALSE, decodes |-> FALSE, content |-> <<>>]
File(text) == [exists |-> TRUE, decodes |-> TRUE, content |-> text]
Undecodable == [exists |-> TRUE, decodes |-> FALSE, content |-> <<>>]

\* what the environment can do during an analyzer call: nothing, or make
\* os.path.getsize raise OSError (the file goes away after it was read),
\* which happens after the rule checks have run
Faults == {"none", "size"}

\* str(e) of the UnicodeDecodeError
DecodeErrText ==
    <<"'utf-8' codec can't decode byte 0xff in position 0: invalid start byte">>

\* str(e) of the OSError
SizeErrText(p) ==
    <<"[Errno 2] No such file or directory: '">> \o PathText(p) \o <<"'">>

-----------------------------------------------------------------------------
(* self.results                                                            *)

\* __init__
EmptyResults ==
    [file_analysis |-> <<>>,
     compatibility_issues |-> <<>>,
     responsive_design |-> <<>>,
     performance_concerns |-> <<>>,
     recommendations |-> <<>>]

\* d[key] = value on a dict
Put(d, key, value) ==
    [k \in (DOMAIN d) \cup {key} |-> IF k = key THEN value ELSE d[k]]

\* self.results['compatibility_issues'].append(msg)
AddIssue(res, msg) ==
    [res EXCEPT !.compatibility_issues = Append(@, msg)]

\* NotFound recording the artifact in file_analysis as well
NotFoundRecorded(res, label, file_path) ==
    [results |->
         [AddIssue(res, label \o PathText(file_path)) EXCEPT !.file_analysis =
             Put(@, file_path, [file |-> file_path, status |-> "not analyzed"])],
     ret |-> FALSE]

\* the branch of an analyzer for a path that does not exist:
\* append f"<label> file not found: {file_path}" and return False
NotFound(res, label, file_path) ==
    [results |-> AddIssue(res, label \o PathText(file_path)), ret |-> FALSE]

\* the except clause of an analyzer on self.results = res:
\* append f"Error analyzing <label>: {str(e)}" and return False
Failed(res, label, err) ==
    [results |-> AddIssue(res, label \o err), ret |-> FALSE]

-----------------------------------------------------------------------------
(* analyze_html                                                            *)

GtLex == {">", "<body>", "</html>", "<!DOCTYPE html>", "<!doctype html>"}
TwoLetters == {"en", "fr"}

\* r'<meta\s+name=["\']viewport["\']'
ViewportRe ==
    << <<Lit("<meta"), OneOf(WS), Star(OneOf(WS)), Lit("name="),
         OneOf(Quote), Lit("viewport"), OneOf(Quote)>> >>

\* r'<html\s+[^>]*lang=["\'][a-z]{2}["\']'
LangRe ==
    << <<Lit("<html"), OneOf(WS), Star(OneOf(WS)), Star(NoneOf(GtLex)),
         Lit("lang="), OneOf(Quote), OneOf(TwoLetters), OneOf(Quote)>> >>

\* r'aria-label'
AriaRe == << <<Lit("aria-label")>> >>

\* the compatibility issues of the rule checks, in the order they are added
HtmlIssues(html_content) ==
    Cond(~SearchI(ViewportRe, html_content),
         <<"Missing viewport meta tag for responsive design">>)
    \o Cond(~StartsWith(Strip(html_content), <<"<!DOCTYPE html>">>),
            <<"Missing HTML5 doctype declaration">>)
    \o Cond(~SearchI(LangRe, html_content),
            <<"Missing language attribute on html element">>)
    \o Cond(Contains(html_content, <<"<video">>)
              /\ ~Contains(html_content, <<"playsinline">>),
            <<"Missing 'playsinline' attribute on video element for iOS compatibility">>)

\* BeautifulSoup: the positions of the tags named in names
FindAll(html_content, names) ==
    {i \in 1..Len(html_content) : LowerLex(html_content[i]) \in names}

\* BeautifulSoup: tag.get(attr) of the tag opened at position i
RECURSIVE TagAttrs(_, _)
TagAttrs(html_content, i) ==
    IF i + 1 > Len(html_content) \/ html_content[i + 1] \in GtLex THEN {}
    ELSE {LowerLex(html_content[i + 1])} \cup TagAttrs(html_content, i + 1)

TagGet(html_content, i, attr) == attr \in TagAttrs(html_content, i)

\* the recommendations of the rule checks, in the order they are added
HtmlRecommendations(html_content, bs) ==
    Cond(~SearchI(AriaRe, html_content),
         <<"Consider adding ARIA labels for better accessibility">>)
    \o Cond(bs /\ \E img \in FindAll(html_content, {"<img"}) :
                      /\ ~TagGet(html_content, img, "srcset")
                      /\ ~TagGet(html_content, img, "loading"),
            <<"Consider adding 'srcset' or 'loading' attributes to images for better performance">>)
    \o Cond(bs /\ \E button \in FindAll(html_content, {"<button", "<a"}) :
                      /\ LowerLex(html_content[button]) = "<a"
                      /\ ~TagGet(html_content, button, "role"),
            <<"Links used as buttons should have role='button' attribute">>)

\* 'issues_count': len([i for i in compatibility_issues if file_path in i])
IssuesCount(issues, file_path) ==
    Cardinality({i \in 1..Len(issues) : Contains(issues[i], PathText(file_path))})

\* analyze_html(file_path) under the environment's fault: the new
\* self.results and the value returned
AnalyzeHtml(res, fsys, bs, file_path, fault) ==
    IF ~fsys[file_path].exists
    THEN NotFound(res, <<"HTML file not found: ">>, file_path)
    ELSE IF ~fsys[file_path].decodes
    THEN Failed(res, <<"Error analyzing HTML: ">>, DecodeErrText)
    ELSE LET html_content == fsys[file_path].content
             checked ==
                 [res EXCEPT
                    !.compatibility_issues = @ \o HtmlIssues(html_content),
                    !.recommendations = @ \o HtmlRecommendations(html_content, bs)]
         IN  IF fault = "size"
             THEN Failed(checked, <<"Error analyzing HTML: ">>,
                         SizeErrText(file_path))
             ELSE [results |->
                       [checked EXCEPT !.file_analysis =
                           Put(@, "html",
                               [file |-> file_path,
                                size |-> ByteLen(html_content),
                                issues_count |->
                                    IssuesCount(checked.compatibility_issues,
                                                file_path)])],
                   ret |-> TRUE]

-----------------------------------------------------------------------------
(* analyze_css                                                             *)

Digit == {"0", "1", "2", "3", "4", "5", "6", "7", "8", "9"}
RelativeUnits == {"em", "rem", "%", "vh", "vw"}

\* r'@media\s+[^{]+{'
MediaRe ==
    <<Lit("@media"), OneOf(WS), Star(OneOf(WS)), NoneOf({"{"}),
      Star(NoneOf({"{"})), Lit("{")>>

\* r'\d+px'
PxRe == <<OneOf(Digit), Star(OneOf(Digit)), Lit("px")>>

\* r'\d+(?:em|rem|%|vh|vw)'
RelRe == <<OneOf(Digit), Star(OneOf(Digit)), OneOf(RelativeUnits)>>

\* FixedUnits with the pattern r'px': every px, also one after no digit
FixedUnitsAnyPx(css_content) == FindAllCount(<<Lit("px")>>, css_content)

\* fixed_units = len(re.findall(r'\d+px', css_content))
FixedUnits(css_content) == FindAllCount(PxRe, css_content)

\* responsive_units = len(re.findall(r'\d+(?:em|rem|%|vh|vw)', css_content))
ResponsiveUnits(css_content) == FindAllCount(RelRe, css_content)

\* the recommendations of the rule checks, in the order they are added
CssRecommendations(css_content) ==
    Cond(/\ Contains(css_content, <<"display: flex">>)
         /\ ~Contains(css_content, <<"-webkit-", "flex">>)
         /\ ~Contains(css_content, <<"-ms-flexbox">>),
         <<"Consider adding vendor prefixes for flexbox for better compatibility">>)
    \o Cond(\/ /\ Contains(css_content, <<"transform:">>)
               /\ ~Contains(css_content, <<"-webkit-", "transform:">>)
            \/ /\ Contains(css_content, <<"transition:">>)
               /\ ~Contains(css_content, <<"-webkit-", "transition:">>),
            <<"Consider adding vendor prefixes for transforms/transitions">>)
    \o Cond(/\ \/ Contains(css_content, <<"animation:">>)
               \/ Contains(css_content, <<"transition:">>)
            /\ ~Contains(css_content, <<"will-change:">>),
            <<"Consider using 'will-change' property for animation performance">>)
    \o Cond(FixedUnits(css_content) > ResponsiveUnits(css_content),
            <<"Consider using more responsive units (em, rem, %, vh, vw) instead of fixed pixels">>)

\* the responsive_design dict after the rule checks
CssResponsiveDesign(rd, css_content) ==
    LET media_queries == FindAllCount(MediaRe, css_content)
        withMedia == IF media_queries = 0 THEN rd
                     ELSE Put(rd, "media_queries", media_queries)
    IN  Put(Put(withMedia, "fixed_units", FixedUnits(css_content)),
            "responsive_units", ResponsiveUnits(css_content))

\* analyze_css(file_path) under the environment's fault
AnalyzeCss(res, fsys, file_path, fault) ==
    IF ~fsys[file_path].exists
    THEN NotFound(res, <<"CSS file not found: ">>, file_path)
    ELSE IF ~fsys[file_path].decodes
    THEN Failed(res, <<"Error analyzing CSS: ">>, DecodeErrText)
    ELSE LET css_content == fsys[file_path].content
             media_queries == FindAllCount(MediaRe, css_content)
             checked ==
                 [res EXCEPT
                    !.compatibility_issues = @ \o
                        Cond(media_queries = 0,
                             <<"No media queries found for responsive design">>),
                    !.recommendations = @ \o CssRecommendations(css_content),
                    !.responsive_design = CssResponsiveDesign(@, css_content)]
         IN  IF fault = "size"
             THEN Failed(checked, <<"Error analyzing CSS: ">>,
                         SizeErrText(file_path))
             ELSE [results |->
                       [checked EXCEPT !.file_analysis =
                           Put(@, "css",
                               [file |-> file_path,
                                size |-> ByteLen(css_content),
                                media_queries |-> media_queries,
                                fixed_vs_responsive_ratio |->
                                    ToString(FixedUnits(css_content)) \o ":"
                                    \o ToString(ResponsiveUnits(css_content))])],
                   ret |-> TRUE]

-----------------------------------------------------------------------------
(* analyze_js                                                              *)

\* r'if\s*\(\s*navigator\.mediaDevices'
MediaDevicesGuardRe ==
    << <<Lit("if"), Star(OneOf(WS)), Lit("("), Star(OneOf(WS)),
         Lit("navigator"), Lit(".mediaDevices")>> >>

\* compatibility_patterns
CompatibilityPatterns ==
    << [feature |-> "getUserMedia",
        \* r'navigator\.getUserMedia|navigator\.mediaDevices\.getUserMedia'
        pattern |-> << <<Lit("navigator"), Lit(".getUserMedia")>>,
                       <<Lit("navigator"), Lit(".mediaDevices"),
                         Lit(".getUserMedia")>> >>],
       [feature |-> "Canvas API",
        \* r'getContext\s*\(\s*[\'"]2d[\'"]\s*\)'
        pattern |-> << <<Lit("getContext"), Star(OneOf(WS)), Lit("("),
                         Star(OneOf(WS)), OneOf(Quote), Lit("2d"),
                         OneOf(Quote), Star(OneOf(WS)), Lit(")")>> >>],
       [feature |-> "Touch Events",
        \* r'touchstart|touchmove|touchend'
        pattern |-> << <<Lit("touchstart")>>, <<Lit("touchmove")>>,
                       <<Lit("touchend")>> >>],
       [feature |-> "Orientation",
        \* r'orientation|window\.matchMedia\s*\(\s*[\'"]orientation'
        pattern |-> << <<Lit("orientation")>>,
                       <<Lit("window.matchMedia"), Star(OneOf(WS)), Lit("("),
                         Star(OneOf(WS)), OneOf(Quote),
                         Lit("orientation")>> >>] >>

\* r'if\s*\([^)]*'
GuardPrefix ==
    <<Lit("if"), Star(OneOf(WS)), Lit("("), Star(NoneOf({")"}))>>

\* r'if\s*\([^)]*' + pattern.split('|')[0]
GuardRe(pattern) == << GuardPrefix \o pattern[1] >>

\* the test of one entry of compatibility_patterns
NeedsFeatureDetection(entry, js_content) ==
    /\ Search(entry.pattern, js_content)
    /\ ~Search(GuardRe(entry.pattern), js_content)

FeatureMessage(feature) ==
    CASE feature = "getUserMedia" ->
             <<"Consider adding feature detection for getUserMedia">>
      [] feature = "Canvas API" ->
             <<"Consider adding feature detection for Canvas API">>
      [] feature = "Touch Events" ->
             <<"Consider adding feature detection for Touch Events">>
      [] feature = "Orientation" ->
             <<"Consider adding feature detection for Orientation">>

\* the loop over compatibility_patterns, from entry k on
RECURSIVE FeatureRecommendations(_, _)
FeatureRecommendations(js_content, k) ==
    IF k > Len(CompatibilityPatterns) THEN <<>>
    ELSE Cond(NeedsFeatureDetection(CompatibilityPatterns[k], js_content),
              FeatureMessage(CompatibilityPatterns[k].feature))
         \o FeatureRecommendations(js_content, k + 1)

HasErrorHandling(js_content) ==
    Contains(js_content, <<"try">>) /\ Contains(js_content, <<"catch">>)

\* JsIssues without the check for try and catch
JsIssuesNoErrorHandlingCheck(js_content) ==
    Cond(/\ Contains(js_content, <<"navigator", ".mediaDevices">>)
         /\ ~Search(MediaDevicesGuardRe, js_content),
         <<"Missing feature detection for MediaDevices API">>)

\* the compatibility issues of the rule checks, in the order they are added
JsIssues(js_content) ==
    Cond(/\ Contains(js_content, <<"navigator", ".mediaDevices">>)
         /\ ~Search(MediaDevicesGuardRe, js_content),
         <<"Missing feature detection for MediaDevices API">>)
    \o Cond(~HasErrorHandling(js_content),
            <<"Missing try/catch blocks for error handling">>)

JsPerformanceConcerns(js_content) ==
    Cond(/\ Contains(js_content, <<"setInterval", "(">>)
         /\ ~Contains(js_content, <<"requestAnimationFrame">>),
         <<"Consider using requestAnimationFrame instead of setInterval for animations">>)

JsRecommendations(js_content) ==
    FeatureRecommendations(js_content, 1)
    \o Cond(~Contains(Lower(js_content), <<"polyfill">>),
            <<"Consider adding polyfills for broader browser support">>)

\* analyze_js(file_path) under the environment's fault
AnalyzeJs(res, fsys, file_path, fault) ==
    IF ~fsys[file_path].exists
    THEN NotFound(res, <<"JavaScript file not found: ">>, file_path)
    ELSE IF ~fsys[file_path].decodes
    THEN Failed(res, <<"Error analyzing JavaScript: ">>, DecodeErrText)
    ELSE LET js_content == fsys[file_path].content
             checked ==
                 [res EXCEPT
                    !.compatibility_issues = @ \o JsIssues(js_content),
                    !.performance_concerns = @ \o JsPerformanceConcerns(js_content),
                    !.recommendations = @ \o JsRecommendations(js_content)]
         IN  IF fault = "size"
             THEN Failed(checked, <<"Error analyzing JavaScript: ">>,
                         SizeErrText(file_path))
             ELSE [results |->
                       [checked EXCEPT !.file_analysis =
                           Put(@, "js",
                               [file |-> file_path,
                                size |-> ByteLen(js_content),
                                has_feature_detection |->
                                    Contains(js_content,
                                        <<"if", " ", "(", "navigator",
                                          ".mediaDevices">>),
                                has_error_handling |->
                                    HasErrorHandling(js_content),
                                uses_animation_frame |->
                                    Contains(js_content,
                                        <<"requestAnimationFrame">>)])],
                   ret |-> TRUE]

-----------------------------------------------------------------------------
(* generate_compatibility_report, save_report                              *)

\* Tier with the boundary between Fair and Poor one too high
TierLateBoundary(n) ==
    IF n = 0 THEN "Excellent - No compatibility issues detected"
    ELSE IF n <= 2 THEN "Good - Minor compatibility issues detected"
    ELSE IF n <= 6 THEN "Fair - Several compatibility issues detected"
    ELSE "Poor - Multiple compatibility issues detected"

\* report['overall_assessment'] for len(compatibility_issues) = n
Tier(n) ==
    IF n = 0 THEN "Excellent - No compatibility issues detected"
    ELSE IF n <= 2 THEN "Good - Minor compatibility issues detected"
    ELSE IF n <= 5 THEN "Fair - Several compatibility issues detected"
    ELSE "Poor - Multiple compatibility issues detected"

\* the entries of the report dict that hold values of their own: the
\* summary counts and the assessment.  Its other five entries are the very
\* list and dict objects of self.results.
GenerateCompatibilityReport(res) ==
    [built |-> TRUE,
     summary |->
         [files_analyzed |-> Cardinality(DOMAIN res.file_analysis),
          issues_found |-> Len(res.compatibility_issues),
          recommendations |-> Len(res.recommendations)],
     overall_assessment |-> Tier(Len(res.compatibility_issues))]

\* what a reader of the report dict rep finds in it while self.results is res
ReportView(rep, res) ==
    [summary |-> rep.summary,
     compatibility_issues |-> res.compatibility_issues,
     responsive_design |-> res.responsive_design,
     performance_concerns |-> res.performance_concerns,
     recommendations |-> res.recommendations,
     file_analysis |-> res.file_analysis,
     overall_assessment |-> rep.overall_assessment]

\* save_report: the document json.dump writes
SavedReport(res) == ReportView(GenerateCompatibilityReport(res), res)

-----------------------------------------------------------------------------
(* The calls.                                                              *)

Kind(p) == IF p \in HtmlPaths THEN "html"
           ELSE IF p \in CssPaths THEN "css" ELSE "js"

\* one analyzer call on self.results = res
Analyze(res, fsys, bs, p, fault) ==
    IF p \in HtmlPaths THEN AnalyzeHtml(res, fsys, bs, p, fault)
    ELSE IF p \in CssPaths THEN AnalyzeCss(res, fsys, p, fault)
    ELSE AnalyzeJs(res, fsys, p, fault)

\* os.path.getsize is reached only when the file was there and was read
FaultsOf(fsys, p) == IF fsys[p].decodes THEN Faults ELSE {"none"}

\* the record kept of a call that returned ret
CallRecord(p, fault, ret) == [path |-> p, fault |-> fault, ret |-> ret]

\* the number of calls of h in which the environment raised a fault
NumFaults(h) == Cardinality({k \in 1..Len(h) : h[k].fault # "none"})

DoAnalyze(p, fault) ==
    /\ fault \in FaultsOf(fs, p)
    /\ fault = "none" \/ NumFaults(hist) < MaxFaults
    /\ LET out == Analyze(results, fs, bs4, p, fault)
       IN  /\ results' = out.results
           /\ hist' = Append(hist, CallRecord(p, fault, out.ret))
    /\ pre' = results
    /\ UNCHANGED <<fs, bs4, report, saved>>

AnalyzeHtmlCall == \E p \in HtmlPaths, fault \in Faults : DoAnalyze(p, fault)
AnalyzeCssCall == \E p \in CssPaths, fault \in Faults : DoAnalyze(p, fault)
AnalyzeJsCall == \E p \in JsPaths, fault \in Faults : DoAnalyze(p, fault)

GenerateReportCall ==
    /\ report' = GenerateCompatibilityReport(results)
    /\ UNCHANGED <<fs, bs4, results, saved, hist, pre>>

\* the six analyzer calls of run_full_analysis, in its order
RunPaths ==
    <<"index.html", "enhanced_index.html", "styles.css",
      "enhanced_styles.css", "script.js", "enhanced_script.js">>

\* the state of the validator after the first k calls of a run started on
\* self.results = res with call history h, under the faults flt
RECURSIVE RunState(_, _, _, _, _, _)
RunState(res, h, fsys, bs, flt, k) ==
    IF k = 0 THEN [results |-> res, hist |-> h, pre |-> res]
    ELSE LET before == RunState(res, h, fsys, bs, flt, k - 1)
             p == RunPaths[k]
             out == Analyze(before.results, fsys, bs, p, flt[k])
         IN  [results |-> out.results,
              hist |-> Append(before.hist, CallRecord(p, flt[k], out.ret)),
              pre |-> before.results]

\* the faults the environment can raise during one run, after history h
RunFaults(fsys, h) ==
    {flt \in [1..Len(RunPaths) -> Faults] :
        /\ \A k \in 1..Len(RunPaths) : flt[k] \in FaultsOf(fsys, RunPaths[k])
        /\ NumFaults(h) + Cardinality({k \in 1..Len(RunPaths) : flt[k] # "none"})
               <= MaxFaults}

\* run_full_analysis: the six calls, then save_report (visualize_results
\* and the prints change nothing of the validator)
RunFullAnalysis ==
    /\ Len(saved) < MaxRuns
    /\ \E flt \in RunFaults(fs, hist) :
         LET after == RunState(results, hist, fs, bs4, flt, Len(RunPaths))
         IN  /\ results' = after.results
             /\ hist' = after.hist
             /\ pre' = after.pre
             /\ saved' = Append(saved, SavedReport(after.results))
    /\ UNCHANGED <<fs, bs4, report>>

-----------------------------------------------------------------------------
(* The specifications.                                                     *)

IsBaseline(p) == Len(PathText(p)) = 1

\* the installations: no artifact; the baseline artifacts only; all six; all
\* six with the enhanced ones damaged (not UTF-8)
FileSystems ==
    {[p \in Paths |-> Absent],
     [p \in Paths |-> IF IsBaseline(p) THEN File(CatalogText(p)) ELSE Absent],
     [p \in Paths |-> File(CatalogText(p))],
     [p \in Paths |-> IF IsBaseline(p) THEN File(CatalogText(p))
                      ELSE Undecodable]}

InitValidator ==
    /\ results = EmptyResults
    /\ report = [built |-> FALSE]
    /\ saved = <<>>
    /\ hist = <<>>
    /\ pre = EmptyResults

\* A validator used as a library: analyzer calls in any order, a report at
\* any time.
Init ==
    /\ fs \in FileSystems
    /\ bs4 \in BOOLEAN
    /\ InitValidator

Next ==
    \/ Len(hist) < MaxCalls /\ AnalyzeHtmlCall
    \/ Len(hist) < MaxCalls /\ AnalyzeCssCall
    \/ Len(hist) < MaxCalls /\ AnalyzeJsCall
    \/ GenerateReportCall

Spec == Init /\ [][Next]_vars

\* A validator driven by run_full_analysis, as main() does, run after run.
NextRun == RunFullAnalysis

SpecRun == Init /\ [][NextRun]_vars

\* texts of up to n lexemes of the set A
TextsUpTo(A, n) == UNION {[1..k -> A] : k \in 0..n}

\* the texts of fragments put one after the other
RECURSIVE Flatten(_)
Flatten(frags) ==
    IF frags = <<>> THEN <<>> ELSE Head(frags) \o Flatten(Tail(frags))

CssAlphabet == {"1", "px", "em", "%", " "}

\* The style analyzer on every short stylesheet: styles.css holds any text
\* over CssAlphabet, enhanced_styles.css the catalog's text.
InitCss ==
    /\ \E text \in TextsUpTo(CssAlphabet, MaxCssLen) :
         fs = [p \in Paths |->
                 IF p = "styles.css" THEN File(text)
                 ELSE IF p = "enhanced_styles.css" THEN File(CatalogText(p))
                 ELSE Absent]
    /\ bs4 = FALSE
    /\ InitValidator

NextCss == Len(hist) < MaxTextCalls /\ AnalyzeCssCall

SpecCss == InitCss /\ [][NextCss]_vars

\* uses and guards of the four capabilities, and the other things analyze_js
\* looks for
JsFragments ==
    {<<"navigator", ".mediaDevices", ".getUserMedia", "(", ")">>,
     <<"if", " ", "(", "navigator", ".mediaDevices", ".getUserMedia", ")">>,
     <<"navigator", ".getUserMedia", "(", ")">>,
     <<"if", "(", "navigator", ".getUserMedia", ")">>,
     <<"getContext", "(", "'", "2d", "'", ")">>,
     <<"if", "(", "x", "getContext", " ", "(", "\"", "2d", "\"", ")", ")">>,
     <<"touchstart">>,
     <<"if", "(", "'", "on", "touchstart", "'", " ", "x", ")">>,
     <<"touchmove">>,
     <<"if", "(", "'", "on", "touchmove", "'", " ", "x", ")">>,
     <<"window.matchMedia", "(", "'", "orientation", ")">>,
     <<"if", "(", "x", "orientation", ")">>,
     <<"try", "catch">>,
     <<"setInterval", "(", ")">>,
     <<"POLYFILL">>}

\* The script analyzer on every script of a few fragments: script.js holds
\* the fragments, enhanced_script.js the catalog's text.
InitJs ==
    /\ \E frags \in TextsUpTo(JsFragments, MaxJsFrags) :
         fs = [p \in Paths |->
                 IF p = "script.js" THEN File(Flatten(frags))
                 ELSE IF p = "enhanced_script.js" THEN File(CatalogText(p))
                 ELSE Absent]
    /\ bs4 = FALSE
    /\ InitValidator

NextJs == Len(hist) < MaxTextCalls /\ AnalyzeJsCall

SpecJs == InitJs /\ [][NextJs]_vars

-----------------------------------------------------------------------------
(* Properties.                                                             *)

\* the latest analyzer call
LastCall == hist[Len(hist)]

\* how many times msg stands in the list msgs
Count(msgs, msg) == Cardinality({i \in 1..Len(msgs) : msgs[i] = msg})

\* the findings the latest analyzer call added, by category
IssuesAdded == Len(results.compatibility_issues) - Len(pre.compatibility_issues)
ConcernsAdded == Len(results.performance_concerns) - Len(pre.performance_concerns)
RecommendationsAdded == Len(results.recommendations) - Len(pre.recommendations)

\* C1: a report's tier is decided by its count n of compatibility issues
\* alone: Excellent for 0, Good for 1..2, Fair for 3..5, Poor above 5 (so
\* equal counts give equal tiers and a larger count never a better tier),
\* and n is the number of compatibility issues found when it was built.
C1_TierByIssueCount ==
    report.built =>
        LET n == report.summary.issues_found
            t == report.overall_assessment
        IN  /\ n = 0 => t = "Excellent - No compatibility issues detected"
            /\ n \in 1..2 => t = "Good - Minor compatibility issues detected"
            /\ n \in 3..5 => t = "Fair - Several compatibility issues detected"
            /\ n > 5 => t = "Poor - Multiple compatibility issues detected"
            /\ n <= Len(results.compatibility_issues)
            /\ report.summary.recommendations <= Len(results.recommendations)

\* C1 witness: a report of the Poor tier built from exactly six issues, with
\* recommendations and a performance concern in the analysis state
C1_Witness ==
    /\ report.built
    /\ report.summary.issues_found = 6
    /\ report.overall_assessment = "Poor - Multiple compatibility issues detected"
    /\ report.summary.recommendations > 0

\* the latest analyzer call was made on a path that does not exist
LastCallMissing == hist # <<>> /\ ~fs[LastCall.path].exists

NotFoundLabel(p) ==
    IF p \in HtmlPaths THEN <<"HTML file not found: ">>
    ELSE IF p \in CssPaths THEN <<"CSS file not found: ">>
    ELSE <<"JavaScript file not found: ">>

\* the call on a missing path added exactly one issue, which names the file
OneIssueNamingFile ==
    /\ results.compatibility_issues =
           Append(pre.compatibility_issues,
                  NotFoundLabel(LastCall.path) \o PathText(LastCall.path))
    /\ Contains(results.compatibility_issues[Len(results.compatibility_issues)],
                PathText(LastCall.path))

\* C2 as stated: a call on a missing path adds one issue naming the file and
\* the artifact appears in file_analysis marked "not analyzed"
C2_Original ==
    LastCallMissing =>
        /\ OneIssueNamingFile
        /\ Kind(LastCall.path) \in DOMAIN results.file_analysis
        /\ LET entry == results.file_analysis[Kind(LastCall.path)]
           IN  /\ entry.file = LastCall.path
               /\ "status" \in DOMAIN entry
               /\ entry.status = "not analyzed"

\* C2 amended: a call on a missing path returns False, adds exactly one
\* issue, which names the file, and changes nothing else of the analysis
\* state: file_analysis is left as it was, with no entry added or marked for
\* the artifact
C2_MissingFileOneIssue ==
    LastCallMissing =>
        /\ LastCall.ret = FALSE
        /\ OneIssueNamingFile
        /\ results.file_analysis = pre.file_analysis
        /\ results.responsive_design = pre.responsive_design
        /\ results.performance_concerns = pre.performance_concerns
        /\ results.recommendations = pre.recommendations

\* C2 witness: a call on a missing path made after a successful analysis of
\* an artifact of the same kind
C2_Witness ==
    /\ LastCallMissing
    /\ Kind(LastCall.path) \in DOMAIN results.file_analysis

\* C3 as stated: every analyzer call that fails (returns False), wherever
\* the failure occurs, has added exactly one compatibility issue
C3_Original ==
    (hist # <<>> /\ ~LastCall.ret) => IssuesAdded = 1

\* C4 as stated: whatever is called after a report was built, the report's
\* summary.issues_found equals the length of its own issues list and its
\* overall_assessment is the tier of that list
C4_Original ==
    report.built =>
        LET view == ReportView(report, results)
        IN  /\ view.summary.issues_found = Len(view.compatibility_issues)
            /\ view.summary.recommendations = Len(view.recommendations)
            /\ view.overall_assessment = Tier(Len(view.compatibility_issues))

\* C5 as stated: the runs of run_full_analysis on unchanged artifacts (no
\* fault of the environment in between), also those made on one validator,
\* all save the same report
C5_Original ==
    NumFaults(hist) = 0 =>
        \A i, j \in 1..Len(saved) : saved[i] = saved[j]

\* the analysis state after the calls on paths, in this order, on a new
\* validator
RECURSIVE Replay(_, _)
Replay(paths, k) ==
    IF k = 0 THEN EmptyResults
    ELSE Analyze(Replay(paths, k - 1), fs, bs4, paths[k], "none").results

\* C6 as stated: on fixed artifacts every order of the calls made gives the
\* same per-artifact metrics, responsive-design values, summary counts and
\* tier; and what a call records for its artifact does not depend on the
\* calls before it
C6_Original ==
    (hist # <<>> /\ NumFaults(hist) = 0) =>
        /\ \A perm \in Permutations(1..Len(hist)) :
             LET other == Replay([k \in 1..Len(hist) |-> hist[perm[k]].path],
                                 Len(hist))
             IN  /\ other.file_analysis = results.file_analysis
                 /\ other.responsive_design = results.responsive_design
                 /\ GenerateCompatibilityReport(other)
                        = GenerateCompatibilityReport(results)
        /\ LastCall.ret =>
             results.file_analysis[Kind(LastCall.path)] =
                 Replay(<<LastCall.path>>, 1).file_analysis[Kind(LastCall.path)]

\* the end-to-end scenario: the markup document without doctype, viewport
\* tag and language attribute, the stylesheet with one media query and the
\* units 10px 10px 1em 50%, and the script holding only a timer call have
\* each been analyzed once, in some order, and a report was built after that
EndToEndScenario ==
    /\ fs["index.html"] = File(IndexHtml)
    /\ fs["styles.css"] = File(StylesCss)
    /\ fs["script.js"] = File(ScriptJs)
    /\ Len(hist) = 3
    /\ {hist[k].path : k \in 1..Len(hist)}
           = {"index.html", "styles.css", "script.js"}
    /\ NumFaults(hist) = 0
    /\ report.built
    /\ report.summary.files_analyzed = 3

\* what the scenario's report holds besides its count of issues
EndToEndRest(view) ==
    /\ view.overall_assessment = "Fair - Several compatibility issues detected"
    /\ view.responsive_design.fixed_units = 2
    /\ view.responsive_design.responsive_units = 2
    /\ \E i \in 1..Len(view.performance_concerns) :
         Contains(view.performance_concerns[i],
                  <<"Consider using requestAnimationFrame instead of setInterval for animations">>)

\* C7 as stated: the end-to-end scenario gives a report with issues_found =
\* 3, the Fair tier, fixed_units = 2, responsive_units = 2 and a performance
\* concern about animation timing
C7_Original ==
    EndToEndScenario =>
        LET view == ReportView(report, results)
        IN  view.summary.issues_found = 3 /\ EndToEndRest(view)

\* C7 amended: the end-to-end scenario gives a report with issues_found = 4
\* (the three markup issues and the script's missing try/catch), the Fair
\* tier, fixed_units = 2, responsive_units = 2 and a performance concern
\* about animation timing
C7_EndToEnd ==
    EndToEndScenario =>
        LET view == ReportView(report, results)
        IN  /\ view.summary.issues_found = 4
            /\ Len(view.compatibility_issues) = 4
            /\ \E i \in 1..Len(view.compatibility_issues) :
                 view.compatibility_issues[i] =
                     <<"Missing try/catch blocks for error handling">>
            /\ EndToEndRest(view)

\* C7 witness: the scenario has been played with the script analyzed first
C7_Witness ==
    /\ EndToEndScenario
    /\ hist[1].path = "script.js"

\* the latest analyzer call is a successful call of the analyzer for paths
LastCallSucceeded(paths) ==
    hist # <<>> /\ LastCall.path \in paths /\ LastCall.ret

\* C8 as stated: after a successful analyze_html the metric issues_count is
\* the number of findings this call produced (its compatibility issues, or
\* its findings of all three categories), whatever was found before
C8_Original ==
    LastCallSucceeded(HtmlPaths) =>
        results.file_analysis["html"].issues_count
            \in {IssuesAdded,
                 IssuesAdded + ConcernsAdded + RecommendationsAdded}

\* the pixel-length tokens of a text: a px unit right after a digit
PxTokens(text) ==
    Cardinality({i \in 2..Len(text) : text[i] = "px" /\ text[i - 1] \in Digit})

\* the relative-unit tokens of a text: em, rem, %, vh or vw right after a digit
RelTokens(text) ==
    Cardinality({i \in 2..Len(text) :
                    text[i] \in {"em", "rem", "%", "vh", "vw"}
                    /\ text[i - 1] \in Digit})

FavorRelativeUnits ==
    <<"Consider using more responsive units (em, rem, %, vh, vw) instead of fixed pixels">>

\* C9: after a successful analyze_css, responsive_design holds fixed_units
\* and responsive_units, equal to the numbers of pixel-length tokens and of
\* relative-unit tokens of that stylesheet, and the call has added the
\* "favor relative units" recommendation exactly when the first number is
\* strictly greater than the second
C9_UnitCounts ==
    LastCallSucceeded(CssPaths) =>
        LET text == fs[LastCall.path].content
            added == Count(results.recommendations, FavorRelativeUnits)
                     - Count(pre.recommendations, FavorRelativeUnits)
        IN  /\ {"fixed_units", "responsive_units"}
                   \subseteq DOMAIN results.responsive_design
            /\ results.responsive_design.fixed_units = PxTokens(text)
            /\ results.responsive_design.responsive_units = RelTokens(text)
            /\ added = IF PxTokens(text) > RelTokens(text) THEN 1 ELSE 0

\* C9 witness: a stylesheet with as many pixel lengths as relative lengths,
\* and one px that follows no digit, analyzed after the other stylesheet
C9_Witness ==
    /\ LastCallSucceeded({"styles.css"})
    /\ Len(hist) = 2
    /\ hist[1].path = "enhanced_styles.css"
    /\ PxTokens(fs["styles.css"].content) = 1
    /\ RelTokens(fs["styles.css"].content) = 1
    /\ results.responsive_design.fixed_units = 1

\* some conditional guard references some form of the pattern
GuardedByAnyForm(pattern, text) ==
    \E a \in 1..Len(pattern) : Search(<<GuardPrefix \o pattern[a]>>, text)

\* C10 as stated: for each of the four capabilities a successful analyze_js
\* adds the feature-detection recommendation naming it exactly when some
\* form of its pattern is in the script and no conditional guard references
\* the pattern
C10_Original ==
    LastCallSucceeded(JsPaths) =>
        \A k \in 1..Len(CompatibilityPatterns) :
            LET entry == CompatibilityPatterns[k]
                text == fs[LastCall.path].content
                added == Count(results.recommendations,
                               FeatureMessage(entry.feature))
                         - Count(pre.recommendations,
                                 FeatureMessage(entry.feature))
            IN  /\ added \in {0, 1}
                /\ added = 1 <=>
                     /\ Search(entry.pattern, text)
                     /\ ~GuardedByAnyForm(entry.pattern, text)

\* the successful analyze_css calls so far
CssSuccesses ==
    {k \in 1..Len(hist) : hist[k].path \in CssPaths /\ hist[k].ret}

\* the stylesheet most recently successfully analysed
LatestStylesheet ==
    fs[hist[CHOOSE k \in CssSuccesses : \A j \in CssSuccesses : j <= k].path].content

\* C11 as stated: after any sequence of analyze_css calls every value in
\* responsive_design describes the most recently successfully analysed
\* stylesheet: fixed_units and responsive_units are its unit counts;
\* media_queries is absent when it has no media query and otherwise equals
\* its media-query count and file_analysis['css'].media_queries
C11_Original ==
    CssSuccesses # {} =>
        LET text == LatestStylesheet
            n == FindAllCount(MediaRe, text)
            rd == results.responsive_design
        IN  /\ rd.fixed_units = PxTokens(text)
            /\ rd.responsive_units = RelTokens(text)
            /\ results.file_analysis["css"].media_queries = n
            /\ IF n = 0 THEN "media_queries" \notin DOMAIN rd
               ELSE /\ "media_queries" \in DOMAIN rd
                    /\ rd.media_queries = n

====
